---- MODULE Spec2Model ----
(***************************************************************************)
(* todo-or-die: the cached, synchronous HTTP layer (src/http.rs), the      *)
(* uncached GitHub path (src/github.rs) and the fact-checkers that call    *)
(* them.                                                                   *)
(*                                                                         *)
(* Time is counted in ticks, TicksPerSec ticks to the second, because the  *)
(* code stamps an entry with a sub-second DateTime and compares whole      *)
(* seconds (DateTime::timestamp).  Bytes are numbers 0..255.  A cache file *)
(* is modelled by what serde_json reads from it: nothing that parses       *)
(* ("garbage"), or the four fields of a SerializedResponse.                *)
(***************************************************************************)
EXTENDS Integers, Sequences, FiniteSets, TLC

VARIABLES
    now,        \* the wall clock (Local::now()), in ticks
    ttlEnv,     \* TODO_OR_DIE_HTTP_CACHE_TTL_SECONDS: NoVar or its text
    cache,      \* the cache directory: file name (RequestHash) -> content
    pc,         \* per process: where it is inside its current check
    req,        \* per process: the check being performed
    hash,       \* per process: `hash` of http::request (line 35)
    response,   \* per process: `response` of http::request / github::request
    result,     \* per process: what the request returned
    obs,        \* per process: what this call did (history, not program state)
    wrote,      \* per file: the result of the call that wrote it (history)
    codec,      \* the codec round trip under SpecCodec
    client,     \* per process: the `static CLIENT`s that have been built
    skipEnv,    \* TODO_OR_DIE_SKIP: NoVar or its bytes
    out,        \* per process: what perform_check gave back for the last macro
    date,       \* the after_date check under SpecDate
    corruptHit  \* file names on which a call has failed as corrupt (history)

vars == <<now, ttlEnv, cache, pc, req, hash, response, result, obs, wrote, codec,
          client, skipEnv, out, date, corruptHit>>

-----------------------------------------------------------------------------
(* Bounds of the model *)

TicksPerSec == 2
MaxTime == 4

Procs == {1, 2}

-----------------------------------------------------------------------------
(* Program constants *)

DefaultTtlSeconds == 3600

-----------------------------------------------------------------------------
(* Bytes and text *)

IsDigit(c) == c >= 48 /\ c <= 57

RECURSIVE DigitsValue(_)
DigitsValue(s) ==
    IF s = << >> THEN 0
    ELSE DigitsValue(SubSeq(s, 1, Len(s) - 1)) * 10 + (s[Len(s)] - 48)

\* str::parse::<i64>: an optional sign, then one digit or more.
ParseI64(s) ==
    LET signed == Len(s) > 0 /\ s[1] \in {43, 45}
        digits == IF signed THEN Tail(s) ELSE s
    IN  IF Len(digits) = 0 \/ \E i \in DOMAIN digits : ~IsDigit(digits[i])
        THEN [ok |-> FALSE, value |-> 0]
        ELSE [ok |-> TRUE,
              value |-> IF signed /\ s[1] = 45 THEN 0 - DigitsValue(digits)
                        ELSE DigitsValue(digits)]

\* String::from_utf8_lossy on the bytes of the model: ASCII stays, a byte
\* that is no UTF-8 becomes U+FFFD.
from_utf8_lossy(body) ==
    [i \in DOMAIN body |-> IF body[i] < 128 THEN body[i] ELSE 65533]

\* serde_json::from_slice::<T> with T an unsigned number: JSON digits, no
\* leading zero, nothing else.
from_slice(body) ==
    IF \/ Len(body) = 0
       \/ \E i \in DOMAIN body : ~IsDigit(body[i])
       \/ (Len(body) > 1 /\ body[1] = 48)
    THEN [ok |-> FALSE, value |-> 0]
    ELSE [ok |-> TRUE, value |-> DigitsValue(body)]

-----------------------------------------------------------------------------
(* Environment *)

NoVar == [set |-> FALSE, text |-> << >>]
Var(text) == [set |-> TRUE, text |-> text]

\* std::env::var: Ok for a variable that is set to valid Unicode, Err for one
\* that is not set (NotPresent) or whose bytes are no Unicode (NotUnicode).
env_var(v) ==
    [ok |-> v.set /\ \A i \in DOMAIN v.text : v.text[i] < 128, text |-> v.text]

\* unset, "1", the byte 0xFF
SkipEnv == {NoVar, Var(<<49>>), Var(<<255>>)}

\* unset, "1"
TtlEnv == {NoVar, Var(<<49>>)}

cache_ttl(env) ==
    IF env.set /\ ParseI64(env.text).ok THEN ParseI64(env.text).value
    ELSE DefaultTtlSeconds

-----------------------------------------------------------------------------
(* Responses *)

Header(n, v) == [name |-> n, value |-> v]

\* Response bodies: "0", "1" and one byte that is not UTF-8.
Bodies == {<<48>>, <<49>>, <<255>>}

\* Two values under one header name: "a: x", "a: y".
TwoValues == <<Header(97, 120), Header(97, 121)>>

\* The responses the network gives: "0", "1" (with a header of two values)
\* and an undecodable body under 200, "1" and an undecodable body under 500.
Responses ==
    {[status |-> 200, headers |-> << >>, body |-> <<48>>],
     [status |-> 200, headers |-> TwoValues, body |-> <<49>>],
     [status |-> 200, headers |-> << >>, body |-> <<255>>],
     [status |-> 500, headers |-> << >>, body |-> <<49>>],
     [status |-> 500, headers |-> << >>, body |-> <<255>>]}

NoResponse == [status |-> 0, headers |-> << >>, body |-> << >>]

is_success(status) == status >= 200 /\ status <= 299

\* HeaderName::from_bytes / HeaderValue::from_bytes, on one-byte names and
\* values: a name is a token character, a value is visible ASCII or tab.
ValidHeaderName(n) == (n >= 97 /\ n <= 122) \/ IsDigit(n) \/ n = 45
ValidHeaderValue(v) == v = 9 \/ (v >= 32 /\ v # 127)

\* The name/value pairs of a header list.
Pairs(headers) == {<<headers[i].name, headers[i].value>> : i \in DOMAIN headers}

-----------------------------------------------------------------------------
(* Results of a request *)

NoResult == [kind |-> "none", status |-> 0, text |-> << >>, value |-> 0]
OkResult(v) == [kind |-> "Ok", status |-> 0, text |-> << >>, value |-> v]
Failure(kind) == [kind |-> kind, status |-> 0, text |-> << >>, value |-> 0]
StatusFailure(status, text) ==
    [kind |-> "HttpStatus", status |-> status, text |-> text, value |-> 0]

\* http::request, lines 58-69: the success check, then the JSON decode.
check_and_decode(resp) ==
    IF ~is_success(resp.status)
    THEN StatusFailure(resp.status, from_utf8_lossy(resp.body))
    ELSE IF from_slice(resp.body).ok
         THEN OkResult(from_slice(resp.body).value)
         ELSE Failure("Decode")

-----------------------------------------------------------------------------
(* The response codec *)

timestamp(t) == t \div TicksPerSec

Absent == [kind |-> "absent", status |-> 0, headers |-> {}, body |-> << >>,
           expires_at |-> 0]
Garbage == [kind |-> "garbage", status |-> 0, headers |-> {}, body |-> << >>,
            expires_at |-> 0]
\* A file std::fs::write has opened (and so emptied) and not filled, and a
\* file on which two writes landed one over the other: a part of an entry.
Torn == [kind |-> "torn", status |-> 0, headers |-> {}, body |-> << >>,
         expires_at |-> 0]
\* What a lookup has in hand when std::fs::read gave an error other than
\* NotFound.
IoError == [kind |-> "ioerror", status |-> 0, headers |-> {}, body |-> << >>,
            expires_at |-> 0]
Entry(status, headers, body, expires_at) ==
    [kind |-> "entry", status |-> status, headers |-> headers, body |-> body,
     expires_at |-> expires_at]

\* .collect() into HashMap<String, Vec<u8>>: one value per name, the last
\* one the HeaderMap yields for it.
CollectHashMap(headers) ==
    {<<headers[i].name, headers[i].value>> :
        i \in {i \in DOMAIN headers :
                 \A j \in DOMAIN headers : j > i => headers[j].name # headers[i].name}}

\* Mutant of serialize_response: the expiry does not count from the write.
serialize_response_unstamped(resp, t, env) ==
    Entry(resp.status, CollectHashMap(resp.headers), resp.body,
          cache_ttl(env) * TicksPerSec)

serialize_response(resp, t, env) ==
    Entry(resp.status, CollectHashMap(resp.headers), resp.body,
          t + cache_ttl(env) * TicksPerSec)

\* .collect() into HeaderMap, in the order of the names.
RECURSIVE CollectHeaderMap(_)
CollectHeaderMap(map) ==
    IF map = {} THEN << >>
    ELSE LET h == CHOOSE h \in map : \A g \in map : h[1] <= g[1]
         IN  <<Header(h[1], h[2])>> \o CollectHeaderMap(map \ {h})

\* Mutants of the expiry test: expired already in the entry's last second;
\* expired one second late.
ExpiredEarly(t, expires_at) == timestamp(t) >= timestamp(expires_at)
ExpiredLate(t, expires_at) == timestamp(t) > timestamp(expires_at) + 1

\* deserialize_response, lines 164-168.
Expired(t, expires_at) == timestamp(t) > timestamp(expires_at)

DeErr == [tag |-> "err", response |-> NoResponse]
DeNone == [tag |-> "none", response |-> NoResponse]
DeSome(r) == [tag |-> "some", response |-> r]

deserialize_response(data, t) ==
    IF data.kind # "entry" THEN DeErr
    ELSE IF Expired(t, data.expires_at) THEN DeNone
    ELSE IF ~(data.status >= 100 /\ data.status <= 999) THEN DeErr
    ELSE IF \E h \in data.headers : ~ValidHeaderName(h[1]) \/ ~ValidHeaderValue(h[2])
         THEN DeErr
    ELSE DeSome([status |-> data.status,
                 headers |-> CollectHeaderMap(data.headers),
                 body |-> data.body])

-----------------------------------------------------------------------------
(* Checks, requests and their fingerprint *)

\* The crates and the issue / pull request numbers the checks name.
Krates == {1, 2}
Issues == {1}

Checks == [kind : {"crates_io"}, target : Krates]
            \cup [kind : {"issue_closed", "pr_closed"}, target : Issues]

NoCheck == [kind |-> "none", target |-> 0]

\* The URI a check asks for, as the list of its parts: host (1 api.github.com,
\* 2 crates.io), then the path.
Uri(check) ==
    CASE check.kind = "crates_io"    -> <<2, check.target>>
      [] check.kind = "issue_closed" -> <<1, 1, check.target>>
      [] check.kind = "pr_closed"    -> <<1, 2, check.target>>

\* http::request, lines 29-33: the request with the User-Agent header set.
HttpRequest(check) ==
    [method |-> 71, uri |-> Uri(check), headers |-> <<Header(117, 116)>>]

\* format!("{:?}", request): method, uri and the headers in their order.
RECURSIVE FlattenHeaders(_)
FlattenHeaders(headers) ==
    IF headers = << >> THEN << >>
    ELSE <<Head(headers).name, Head(headers).value>> \o FlattenHeaders(Tail(headers))

DebugFormat(request) ==
    <<request.method>> \o request.uri \o FlattenHeaders(request.headers)

\* DefaultHasher over the text: a fold over its characters, to a small range.
RECURSIVE Hasher(_)
Hasher(text) ==
    IF text = << >> THEN 7
    ELSE (Hasher(SubSeq(text, 1, Len(text) - 1)) * 31 + text[Len(text)]) % 64

\* Mutant of hash_request: the hasher is keyed anew from time to time.
hash_request_keyed(request) == 62 + ((Hasher(DebugFormat(request)) + now) % 2)

hash_request(request) == Hasher(DebugFormat(request))

\* The file names of the cache directory that the checks of the model use.
Hashes == {hash_request(HttpRequest(c)) : c \in {c \in Checks : c.kind = "crates_io"}}

-----------------------------------------------------------------------------
(* State *)

NoPut == [done |-> FALSE, hash |-> 0, file |-> Absent, at |-> 0, end |-> 0]

\* What one call has done so far: network calls made, whether the cache was
\* looked up, the file content the lookup read and when, where the response
\* came from, and the file the call wrote.
NoObs == [net |-> 0, looked |-> FALSE, seen |-> Absent, at |-> 0,
          source |-> "none", put |-> NoPut]

CodecOff == [pc |-> "off", c |-> NoResponse, at |-> 0, bytes |-> Absent,
             readAt |-> 0, out |-> DeNone]

DateOff == [pc |-> "off", input |-> <<0, 0, 0>>, today |-> <<0, 0, 0>>,
            out |-> "none"]

\* Files earlier runs (of any version of the program, or a crash in the middle
\* of a write) can have left behind.
InitFiles ==
    {Absent, Garbage, Entry(99, {}, <<49>>, 3), Entry(200, {}, <<49>>, 1),
     Entry(500, {}, <<49>>, 3)}

InitProcs ==
    /\ now = 0
    /\ req = [p \in Procs |-> NoCheck]
    /\ hash = [p \in Procs |-> 0]
    /\ response = [p \in Procs |-> NoResponse]
    /\ result = [p \in Procs |-> NoResult]
    /\ obs = [p \in Procs |-> NoObs]
    /\ wrote = [h \in Hashes |-> NoResult]
    /\ client = [p \in Procs |-> {}]
    /\ out = [p \in Procs |-> "none"]
    /\ corruptHit = {}

\* One process: the macro expansions of one compiler run, one after another.
\* The cache directory holds at most one file left behind, of the first crate.
Init ==
    /\ InitProcs
    /\ date = DateOff
    /\ skipEnv \in SkipEnv
    /\ codec = CodecOff
    /\ ttlEnv \in TtlEnv
    /\ cache \in {c \in [Hashes -> InitFiles] :
                    \A g \in Hashes \ {hash_request(HttpRequest([kind |-> "crates_io", target |-> 1]))} :
                        c[g] = Absent}
    /\ skipEnv.set => (ttlEnv = NoVar /\ \A h \in Hashes : cache[h] = Absent)
    /\ pc = [p \in Procs |-> IF p = 1 THEN "idle" ELSE "off"]

\* Two compiler runs sharing the cache directory, with a TTL of one second.
InitConc ==
    /\ InitProcs
    /\ date = DateOff
    /\ skipEnv = NoVar
    /\ codec = CodecOff
    /\ ttlEnv = Var(<<49>>)
    /\ cache \in {c \in [Hashes -> InitFiles] :
                    \A g \in Hashes \ {hash_request(HttpRequest([kind |-> "crates_io", target |-> 1]))} :
                        c[g] = Absent}
    /\ pc = [p \in Procs |-> "idle"]

-----------------------------------------------------------------------------
(* Actions *)

\* perform_check, line 210: std::env::var("TODO_OR_DIE_SKIP").is_ok().
Skipped == env_var(skipEnv).ok

\* A macro input that syn cannot parse as the check's input.
BadInput == [kind |-> "unparseable", target |-> 0]

\* perform_check, lines 210-212: with the kill switch set the macro expands
\* to nothing, whatever its input.
perform_check_skip(p) ==
    /\ pc[p] = "idle"
    /\ Skipped
    /\ \E input \in Checks \cup {BadInput} : req' = [req EXCEPT ![p] = input]
    /\ out' = [out EXCEPT ![p] = "empty"]
    /\ pc' = [pc EXCEPT ![p] = "returned"]
    /\ UNCHANGED <<now, ttlEnv, cache, hash, response, result, obs, wrote, codec,
                 client, skipEnv, date, corruptHit>>

\* perform_check, lines 214-223: the input does not parse.
perform_check_parse_error(p) ==
    /\ pc[p] = "idle"
    /\ ~Skipped
    /\ req' = [req EXCEPT ![p] = BadInput]
    /\ out' = [out EXCEPT ![p] = "compile_error"]
    /\ pc' = [pc EXCEPT ![p] = "returned"]
    /\ UNCHANGED <<now, ttlEnv, cache, hash, response, result, obs, wrote, codec,
                 client, skipEnv, date, corruptHit>>

\* What the check makes of the request's result: the decoded value 1 says
\* the fact no longer holds (the issue is closed, the version matches).
check_outcome(res) ==
    IF res.kind = "Ok" THEN (IF res.value = 1 THEN "Some" ELSE "None") ELSE "Err"

\* Mutant of expansion: a check that fails breaks the build.
expansion_fatal(res) ==
    IF check_outcome(res) = "None" THEN "empty" ELSE "compile_error"

\* perform_check, lines 225-238: compile_error! for Ok(Some(msg)), nothing
\* for Ok(None), and for Err a message on stderr (eprintln!) and nothing.
expansion(res) ==
    CASE check_outcome(res) = "Some" -> "compile_error"
      [] check_outcome(res) = "None" -> "empty"
      [] check_outcome(res) = "Err"  -> "empty_eprintln"

Finish(p, res) ==
    /\ result' = [result EXCEPT ![p] = res]
    /\ pc' = [pc EXCEPT ![p] = "done"]

\* crates_io (krate.rs 19-24) entering http::request (http.rs 29-35).
crates_io(p, k) ==
    /\ pc[p] = "idle"
    /\ ~Skipped
    /\ req' = [req EXCEPT ![p] = [kind |-> "crates_io", target |-> k]]
    /\ hash' = [hash EXCEPT ![p] = hash_request(HttpRequest(req'[p]))]
    /\ pc' = [pc EXCEPT ![p] = "lookup"]
    /\ UNCHANGED <<now, ttlEnv, cache, response, result, obs, wrote, codec,
                 client, skipEnv, out, date, corruptHit>>

\* cached_response: fs::read of the file, then deserialize_response.
\* Mutant of read_failed: the error is taken for a missing file.
read_failed_as_miss(p, o) ==
    /\ obs' = [obs EXCEPT ![p] = [o EXCEPT !.seen = IoError]]
    /\ pc' = [pc EXCEPT ![p] = "fetch"]
    /\ UNCHANGED <<response, result>>

\* cached_response, lines 109 and 116: the cache directory cannot be made, or
\* the read fails with an error other than NotFound; the error is returned.
read_failed(p, o) ==
    /\ obs' = [obs EXCEPT ![p] = [o EXCEPT !.seen = IoError]]
    /\ Finish(p, Failure("CacheRead"))
    /\ UNCHANGED response

\* Mutant of cached_response: a hit writes the entry again, with a new expiry.
cached_response_refresh(p) ==
    /\ pc[p] = "lookup"
    /\ LET data == cache[hash[p]]
           de == deserialize_response(data, now)
           o == [obs[p] EXCEPT !.looked = TRUE, !.seen = data, !.at = now]
       IN  \/ /\ read_failed(p, o)
              /\ UNCHANGED cache
           \/ /\ data.kind = "absent"
              /\ obs' = [obs EXCEPT ![p] = o]
              /\ pc' = [pc EXCEPT ![p] = "fetch"]
              /\ UNCHANGED <<response, result, cache>>
           \/ /\ data.kind # "absent"
              /\ de.tag = "err"
              /\ obs' = [obs EXCEPT ![p] = o]
              /\ Finish(p, Failure("CacheCorrupt"))
              /\ UNCHANGED <<response, cache>>
           \/ /\ data.kind # "absent"
              /\ de.tag = "none"
              /\ obs' = [obs EXCEPT ![p] = o]
              /\ pc' = [pc EXCEPT ![p] = "discard"]
              /\ UNCHANGED <<response, result, cache>>
           \/ /\ data.kind # "absent"
              /\ de.tag = "some"
              /\ obs' = [obs EXCEPT ![p] = [o EXCEPT !.source = "cache"]]
              /\ response' = [response EXCEPT ![p] = de.response]
              /\ cache' = [cache EXCEPT ![hash[p]] =
                             serialize_response(de.response, now, ttlEnv)]
              /\ Finish(p, check_and_decode(de.response))
    /\ UNCHANGED <<now, ttlEnv, req, hash, wrote, codec,
                 client, skipEnv, out, date, corruptHit>>

cached_response(p) ==
    /\ pc[p] = "lookup"
    /\ LET data == cache[hash[p]]
           de == deserialize_response(data, now)
           o == [obs[p] EXCEPT !.looked = TRUE, !.seen = data, !.at = now]
       IN  \/ \* create_dir_all fails, or the read fails with an error other
              \* than NotFound
              read_failed(p, o)
           \/ /\ data.kind = "absent"
              /\ obs' = [obs EXCEPT ![p] = o]
              /\ pc' = [pc EXCEPT ![p] = "fetch"]
              /\ UNCHANGED <<response, result>>
           \/ /\ data.kind # "absent"
              /\ de.tag = "err"
              /\ obs' = [obs EXCEPT ![p] = o]
              /\ Finish(p, Failure("CacheCorrupt"))
              /\ UNCHANGED response
           \/ /\ data.kind # "absent"
              /\ de.tag = "none"
              /\ obs' = [obs EXCEPT ![p] = o]
              /\ pc' = [pc EXCEPT ![p] = "discard"]
              /\ UNCHANGED <<response, result>>
           \/ /\ data.kind # "absent"
              /\ de.tag = "some"
              /\ obs' = [obs EXCEPT ![p] = [o EXCEPT !.source = "cache"]]
              /\ response' = [response EXCEPT ![p] = de.response]
              /\ Finish(p, check_and_decode(de.response))
    /\ UNCHANGED <<now, ttlEnv, cache, req, hash, wrote, codec,
                 client, skipEnv, out, date, corruptHit>>

\* Mutant of remove_file: the expired file is left in place.
remove_file_kept(p) ==
    /\ pc[p] = "discard"
    /\ pc' = [pc EXCEPT ![p] = "fetch"]
    /\ UNCHANGED <<now, ttlEnv, cache, req, hash, response, result, obs, wrote, codec,
                 client, skipEnv, out, date, corruptHit>>

\* cached_response, line 122: remove_file of the expired entry.
remove_file(p) ==
    /\ pc[p] = "discard"
    /\ IF cache[hash[p]].kind = "absent"
       THEN /\ Finish(p, Failure("CacheRemove"))
            /\ UNCHANGED <<cache, wrote>>
       ELSE /\ cache' = [cache EXCEPT ![hash[p]] = Absent]
            /\ wrote' = [wrote EXCEPT ![hash[p]] = NoResult]
            /\ pc' = [pc EXCEPT ![p] = "fetch"]
            /\ UNCHANGED result
    /\ UNCHANGED <<now, ttlEnv, req, hash, response, obs, codec,
                 client, skipEnv, out, date, corruptHit>>

\* http_client of http.rs: its `static CLIENT` is built on the first use and
\* used from then on.
http_client(p) == client[p] \cup {"http"}

\* http_client of github.rs: a `static CLIENT` of its own.
github_http_client(p) == client[p] \cup {"github"}

\* http::request, lines 42-51: the network call and the read of the body.
\* Mutant of http_client_request: a failed call is made again.
http_client_request_retry(p) ==
    /\ pc[p] = "fetch"
    /\ obs' = [obs EXCEPT ![p].net = @ + 1, ![p].source = "network"]
    /\ \/ /\ UNCHANGED <<pc, result, response>>
       \/ \E resp \in Responses :
             /\ response' = [response EXCEPT ![p] = resp]
             /\ pc' = [pc EXCEPT ![p] = "store"]
             /\ UNCHANGED result
    /\ client' = [client EXCEPT ![p] = http_client(p)]
    /\ UNCHANGED <<now, ttlEnv, cache, req, hash, wrote, codec,
                 skipEnv, out, date, corruptHit>>

http_client_request(p) ==
    /\ pc[p] = "fetch"
    /\ obs' = [obs EXCEPT ![p].net = @ + 1, ![p].source = "network"]
    /\ \/ /\ Finish(p, Failure("Transport"))
          /\ UNCHANGED response
       \/ /\ Finish(p, Failure("BodyRead"))
          /\ UNCHANGED response
       \/ \E resp \in Responses :
             /\ response' = [response EXCEPT ![p] = resp]
             /\ pc' = [pc EXCEPT ![p] = "store"]
             /\ UNCHANGED result
    /\ client' = [client EXCEPT ![p] = http_client(p)]
    /\ UNCHANGED <<now, ttlEnv, cache, req, hash, wrote, codec,
                 skipEnv, out, date, corruptHit>>

\* Mutant of StoreHash: the fingerprint is derived again, from another request.
StoreHashDrift(p) ==
    hash_request(HttpRequest([req[p] EXCEPT !.target = 3 - @]))

\* The file name cache_response writes: the `hash` of line 35, moved in.
StoreHash(p) == hash[p]

\* The length of the JSON text of an entry, up to the parts that are as long
\* in every entry: the body (U+FFFD takes three bytes) and the headers.
RECURSIVE BodyLen(_)
BodyLen(body) ==
    IF body = << >> THEN 0
    ELSE (IF Head(body) < 128 THEN 1 ELSE 3) + BodyLen(Tail(body))

EncodedLen(f) == BodyLen(from_utf8_lossy(f.body)) + 8 * Cardinality(f.headers)

\* write_all at offset 0 of a file that was emptied when this writer opened
\* it: over nothing, or over the shorter text of a writer that came between,
\* the file is this writer's text; over a longer one, that one's tail stays.
write_over(file, bytes) ==
    IF file.kind = "entry" /\ EncodedLen(file) > EncodedLen(bytes) THEN Torn
    ELSE bytes

\* http::request, line 53: cache_response up to the open of std::fs::write
\* (File::create), which truncates the file.
cache_response(p) ==
    /\ pc[p] = "store"
    /\ LET h == StoreHash(p)
           bytes == serialize_response(response[p], now, ttlEnv)
       IN  \/ \* create_dir_all or the open fails; the file is as it was
              /\ Finish(p, Failure("CacheWrite"))
              /\ UNCHANGED <<cache, wrote, obs>>
           \/ /\ cache' = [cache EXCEPT ![h] = Torn]
              /\ wrote' = [wrote EXCEPT ![h] = NoResult]
              /\ obs' = [obs EXCEPT ![p].put =
                            [done |-> FALSE, hash |-> h, file |-> bytes, at |-> now,
                             end |-> 0]]
              /\ pc' = [pc EXCEPT ![p] = "write"]
              /\ UNCHANGED result
    /\ UNCHANGED <<now, ttlEnv, req, hash, response, codec,
                 client, skipEnv, out, date, corruptHit>>

\* std::fs::write after the open (write_all), then http::request, lines 58-69.
write_all(p) ==
    /\ pc[p] = "write"
    /\ LET h == obs[p].put.hash
           file == write_over(cache[h], obs[p].put.file)
       IN  \/ \* the write fails; the file holds what was there
              /\ Finish(p, Failure("CacheWrite"))
              /\ UNCHANGED <<cache, wrote, obs>>
           \/ /\ cache' = [cache EXCEPT ![h] = file]
              /\ wrote' = [wrote EXCEPT ![h] = IF file = Torn THEN NoResult
                                              ELSE check_and_decode(response[p])]
              /\ obs' = [obs EXCEPT ![p].put.done = TRUE, ![p].put.end = now]
              /\ Finish(p, check_and_decode(response[p]))
    /\ UNCHANGED <<now, ttlEnv, req, hash, response, codec,
                 client, skipEnv, out, date, corruptHit>>

\* issue_closed (github.rs 14-36) entering github::request.
issue_closed(p, n) ==
    /\ pc[p] = "idle"
    /\ ~Skipped
    /\ req' = [req EXCEPT ![p] = [kind |-> "issue_closed", target |-> n]]
    /\ pc' = [pc EXCEPT ![p] = "github"]
    /\ UNCHANGED <<now, ttlEnv, cache, hash, response, result, obs, wrote, codec,
                 client, skipEnv, out, date, corruptHit>>

\* pr_closed (github.rs 54-71) entering github::request.
pr_closed(p, n) ==
    /\ pc[p] = "idle"
    /\ ~Skipped
    /\ req' = [req EXCEPT ![p] = [kind |-> "pr_closed", target |-> n]]
    /\ pc' = [pc EXCEPT ![p] = "github"]
    /\ UNCHANGED <<now, ttlEnv, cache, hash, response, result, obs, wrote, codec,
                 client, skipEnv, out, date, corruptHit>>

\* github::request (github.rs 114-160): the network call, the success check,
\* the read of the body and the JSON decode.
github_request(p) ==
    /\ pc[p] = "github"
    /\ obs' = [obs EXCEPT ![p].net = @ + 1, ![p].source = "network"]
    /\ \/ /\ Finish(p, Failure("Transport"))
          /\ UNCHANGED response
       \/ /\ Finish(p, Failure("BodyRead"))
          /\ UNCHANGED response
       \/ \E resp \in Responses :
             /\ response' = [response EXCEPT ![p] = resp]
             /\ Finish(p, check_and_decode(resp))
    /\ client' = [client EXCEPT ![p] = github_http_client(p)]
    /\ UNCHANGED <<now, ttlEnv, cache, req, hash, wrote, codec,
                 skipEnv, out, date, corruptHit>>

\* The check returns to perform_check, which returns the expansion.
Return(p) ==
    /\ pc[p] = "done"
    /\ pc' = [pc EXCEPT ![p] = "returned"]
    /\ out' = [out EXCEPT ![p] = expansion(result[p])]
    /\ hash' = [hash EXCEPT ![p] = 0]
    /\ response' = [response EXCEPT ![p] = NoResponse]
    /\ result' = [result EXCEPT ![p] = NoResult]
    /\ obs' = [obs EXCEPT ![p] = NoObs]
    /\ corruptHit' = IF result[p].kind = "CacheCorrupt"
                     THEN corruptHit \cup {hash[p]} ELSE corruptHit
    /\ UNCHANGED <<now, ttlEnv, cache, req, wrote, codec,
                 client, skipEnv, date>>

\* The compiler goes on to the next macro of the crate.
NextMacro(p) ==
    /\ pc[p] = "returned"
    /\ pc' = [pc EXCEPT ![p] = "idle"]
    /\ req' = [req EXCEPT ![p] = NoCheck]
    /\ out' = [out EXCEPT ![p] = "none"]
    /\ UNCHANGED <<now, ttlEnv, cache, hash, response, result, obs, wrote, codec,
                 client, skipEnv, date, corruptHit>>

\* The wall clock advances.
Tick ==
    /\ now < MaxTime
    /\ now' = now + 1
    /\ UNCHANGED <<ttlEnv, cache, pc, req, hash, response, result, obs, wrote, codec,
                 client, skipEnv, out, date, corruptHit>>

Next ==
    \/ \E p \in Procs, k \in Krates : crates_io(p, k)
    \/ \E p \in Procs, n \in Issues : issue_closed(p, n)
    \/ \E p \in Procs, n \in Issues : pr_closed(p, n)
    \/ \E p \in Procs : cached_response(p)
    \/ \E p \in Procs : remove_file(p)
    \/ \E p \in Procs : http_client_request(p)
    \/ \E p \in Procs : cache_response(p)
    \/ \E p \in Procs : write_all(p)
    \/ \E p \in Procs : github_request(p)
    \/ \E p \in Procs : Return(p)
    \/ \E p \in Procs : NextMacro(p)
    \/ \E p \in Procs : perform_check_skip(p)
    \/ \E p \in Procs : perform_check_parse_error(p)
    \/ Tick

Spec == Init /\ [][Next]_vars

\* Two processes whose crates_io checks overlap on one fingerprint.
NextConc ==
    \/ \E p \in Procs : crates_io(p, 1)
    \/ \E p \in Procs : cached_response(p)
    \/ \E p \in Procs : remove_file(p)
    \/ \E p \in Procs : http_client_request(p)
    \/ \E p \in Procs : cache_response(p)
    \/ \E p \in Procs : write_all(p)
    \/ \E p \in Procs : Return(p)
    \/ Tick

SpecConc == InitConc /\ [][NextConc]_vars

-----------------------------------------------------------------------------
(* The codec alone: serialize_response, then deserialize_response *)

\* Header lists of up to MaxHeaders headers, names "a", "b", values "x", "y".
MaxHeaders == 2

HeaderLists ==
    UNION {[1..n -> [name : {97, 98}, value : {120, 121}]] : n \in 0..MaxHeaders}

CodecResponses == [status : {200, 404}, headers : HeaderLists, body : Bodies]

\* TTLs above zero: "1", "2" and the default.
InitCodec ==
    /\ InitProcs
    /\ date = DateOff
    /\ skipEnv = NoVar
    /\ pc = [p \in Procs |-> "off"]
    /\ cache = [h \in Hashes |-> Absent]
    /\ ttlEnv \in {Var(<<49>>), Var(<<50>>), NoVar}
    /\ \E c \in CodecResponses :
          codec = [pc |-> "start", c |-> c, at |-> 0, bytes |-> Absent,
                   readAt |-> 0, out |-> DeNone]

Encode ==
    /\ codec.pc = "start"
    /\ codec' = [codec EXCEPT !.pc = "encoded", !.at = now,
                              !.bytes = serialize_response(codec.c, now, ttlEnv)]
    /\ UNCHANGED <<now, ttlEnv, cache, pc, req, hash, response, result, obs, wrote,
                 client, skipEnv, out, date, corruptHit>>

Decode ==
    /\ codec.pc = "encoded"
    /\ codec' = [codec EXCEPT !.pc = "decoded", !.readAt = now,
                              !.out = deserialize_response(codec.bytes, now)]
    /\ UNCHANGED <<now, ttlEnv, cache, pc, req, hash, response, result, obs, wrote,
                 client, skipEnv, out, date, corruptHit>>

NextCodec == Encode \/ Decode \/ Tick

SpecCodec == InitCodec /\ [][NextCodec]_vars

\* The codec under every kind of TTL text: unset, "1", "0", "-1", "+1", "a",
\* the empty text and the byte 0xFF.
TtlTexts ==
    {NoVar, Var(<<49>>), Var(<<48>>), Var(<<45, 49>>), Var(<<43, 49>>),
     Var(<<97>>), Var(<< >>), Var(<<255>>)}

InitTtl ==
    /\ InitProcs
    /\ date = DateOff
    /\ skipEnv = NoVar
    /\ pc = [p \in Procs |-> "off"]
    /\ cache = [h \in Hashes |-> Absent]
    /\ ttlEnv \in TtlTexts
    /\ \E c \in Responses :
          codec = [pc |-> "start", c |-> c, at |-> 0, bytes |-> Absent,
                   readAt |-> 0, out |-> DeNone]

SpecTtl == InitTtl /\ [][NextCodec]_vars

-----------------------------------------------------------------------------
(* The date check alone: after_date *)

Years == {2000, 2001}

IsLeap(y) == (y % 4 = 0 /\ y % 100 # 0) \/ y % 400 = 0

DaysIn(y, m) ==
    IF m = 2 THEN (IF IsLeap(y) THEN 29 ELSE 28)
    ELSE IF m \in {4, 6, 9, 11} THEN 30 ELSE 31

\* NaiveDate::from_ymd makes a date of a day of the calendar and panics on
\* anything else.
IsDate(d) == d[2] \in 1..12 /\ d[3] \in 1..DaysIn(d[1], d[2])

\* The year, month and day literals of after_date!(y, m, d) in the model.
DateInputs == {<<y, m, d>> : y \in Years, m \in {1, 2, 12}, d \in {1, 29, 31}}

\* NaiveDate's order: by year, then month, then day.
DateLess(a, b) ==
    \/ a[1] < b[1]
    \/ a[1] = b[1] /\ a[2] < b[2]
    \/ a[1] = b[1] /\ a[2] = b[2] /\ a[3] < b[3]

\* `input <= today`
DateLessEq(a, b) == a = b \/ DateLess(a, b)

NextDay(d) ==
    IF d[3] < DaysIn(d[1], d[2]) THEN <<d[1], d[2], d[3] + 1>>
    ELSE IF d[2] < 12 THEN <<d[1], d[2] + 1, 1>>
    ELSE <<d[1] + 1, 1, 1>>

InitDate ==
    /\ InitProcs
    /\ skipEnv = NoVar
    /\ codec = CodecOff
    /\ ttlEnv = NoVar
    /\ pc = [p \in Procs |-> "off"]
    /\ cache = [h \in Hashes |-> Absent]
    /\ \E y \in Years :
          date = [pc |-> "idle", input |-> <<0, 0, 0>>, today |-> <<y, 1, 1>>,
                  out |-> "none"]

\* time::after_date, through perform_check: the macro panics on a date that
\* is none, gives compile_error! for Ok(Some(msg)) and nothing for Ok(None).
after_date ==
    /\ date.pc = "idle"
    /\ \E input \in DateInputs :
          date' = [date EXCEPT
                     !.pc = "done",
                     !.input = input,
                     !.out = IF ~IsDate(input) THEN "panic"
                             ELSE IF DateLessEq(input, date.today)
                                  THEN "compile_error"
                                  ELSE "empty"]
    /\ UNCHANGED <<now, ttlEnv, cache, pc, req, hash, response, result, obs, wrote,
                 codec, client, skipEnv, out, corruptHit>>

\* The next build.
DateReturn ==
    /\ date.pc = "done"
    /\ date' = [date EXCEPT !.pc = "idle", !.input = <<0, 0, 0>>, !.out = "none"]
    /\ UNCHANGED <<now, ttlEnv, cache, pc, req, hash, response, result, obs, wrote,
                 codec, client, skipEnv, out, corruptHit>>

\* Local::today() moves on at midnight.
Midnight ==
    /\ date.pc = "idle"
    /\ NextDay(date.today)[1] \in Years
    /\ date' = [date EXCEPT !.today = NextDay(date.today)]
    /\ UNCHANGED <<now, ttlEnv, cache, pc, req, hash, response, result, obs, wrote,
                 codec, client, skipEnv, out, corruptHit>>

NextDate == after_date \/ DateReturn \/ Midnight

SpecDate == InitDate /\ [][NextDate]_vars

-----------------------------------------------------------------------------
(* Claims *)

\* The processes inside http::request (a crates_io check).
InFacade(p) == req[p].kind = "crates_io" /\ pc[p] # "returned"

\* A file serde_json reads as a SerializedResponse whose status and headers
\* hyper accepts.
WellFormed(f) ==
    /\ f.kind = "entry"
    /\ f.status >= 100 /\ f.status <= 999
    /\ \A h \in f.headers : ValidHeaderName(h[1]) /\ ValidHeaderValue(h[2])

\* The call came back through the status check and the decode.
Answered(p) == result[p].kind \in {"Ok", "HttpStatus", "Decode"}

\* C1: when the network response has a status outside 200-299, the call
\* returns a failure and no cache entry exists for that fingerprint afterwards.
C1_FailureNotPersisted ==
    \A p \in Procs :
        (/\ InFacade(p)
         /\ pc[p] = "done"
         /\ obs[p].source = "network"
         /\ response[p] # NoResponse
         /\ ~(response[p].status >= 200 /\ response[p].status <= 299))
        => /\ result[p].kind # "Ok"
           /\ cache[hash[p]].kind # "entry"

\* C2: a cache file that does not parse as a cached response is a miss: the
\* call does not fail because of it and makes exactly one network call.
C2_CorruptIsMiss ==
    \A p \in Procs :
        (/\ InFacade(p)
         /\ pc[p] = "done"
         /\ obs[p].looked
         /\ obs[p].seen.kind = "garbage")
        => /\ result[p].kind # "CacheCorrupt"
           /\ obs[p].net = 1

\* C3: a call that finds no file and gets an answer has made exactly one
\* network call and has persisted an entry; a call that finds, within its TTL,
\* an entry written by an earlier call makes no network call and returns what
\* the call that wrote the entry returned.
C3_MissThenHit ==
    \A p \in Procs :
        /\ (/\ InFacade(p)
            /\ pc[p] = "done"
            /\ obs[p].looked
            /\ obs[p].seen.kind = "absent"
            /\ Answered(p))
           => /\ obs[p].net = 1
              /\ obs[p].put.done
              /\ cache[hash[p]].kind = "entry"
              /\ cache[hash[p]] = obs[p].put.file
        /\ (/\ InFacade(p)
            /\ obs[p].looked
            /\ obs[p].seen.kind = "entry"
            /\ obs[p].at <= obs[p].seen.expires_at
            /\ wrote[hash[p]] # NoResult)
           => /\ pc[p] = "done"
              /\ obs[p].net = 0
              /\ obs[p].source = "cache"
              /\ result[p] = wrote[hash[p]]

\* C3 witness: a value returned from the cache, equal to the value of the call
\* that wrote the entry.
C3_Witness ==
    \E p \in Procs :
        /\ pc[p] = "done"
        /\ obs[p].source = "cache"
        /\ obs[p].net = 0
        /\ result[p].kind = "Ok"
        /\ result[p] = wrote[hash[p]]

\* C4: a call that misses makes exactly one network call, and when it returns
\* a value obtained from the network, it has written an entry holding that
\* response under the fingerprint of the lookup; when the write fails it
\* returns no value.
C4_PersistBeforeReturn ==
    \A p \in Procs :
        InFacade(p) =>
            /\ hash[p] = hash_request(HttpRequest(req[p]))
            /\ pc[p] = "fetch" => obs[p].net = 0
            /\ pc[p] \in {"store", "write"} => obs[p].net = 1
            /\ (pc[p] = "done" /\ obs[p].source = "network") => obs[p].net = 1
            /\ (pc[p] = "done" /\ obs[p].source = "network" /\ result[p].kind = "Ok")
               => /\ obs[p].put.done
                  /\ obs[p].put.hash = hash[p]
                  /\ obs[p].put.file.kind = "entry"
                  /\ obs[p].put.file.status = response[p].status
                  /\ obs[p].put.file.body = response[p].body
                  /\ obs[p].put.file.headers \subseteq Pairs(response[p].headers)
                  /\ cache[hash[p]] = obs[p].put.file
            /\ (pc[p] = "done" /\ result[p].kind = "CacheWrite") => ~obs[p].put.done

\* C4 witness: a value from the network returned after its entry was written.
C4_Witness ==
    \E p \in Procs :
        /\ pc[p] = "done"
        /\ obs[p].source = "network"
        /\ result[p].kind = "Ok"
        /\ obs[p].put.done

C6_NonSuccessFails ==
    \A p \in Procs :
        (/\ InFacade(p)
         /\ pc[p] = "done"
         /\ response[p] # NoResponse
         /\ ~(response[p].status >= 200 /\ response[p].status <= 299))
        => result[p] = StatusFailure(response[p].status, from_utf8_lossy(response[p].body))

C8_DiscardNeverErrors ==
    \A p \in Procs :
        (/\ InFacade(p)
         /\ obs[p].looked
         /\ obs[p].seen.kind = "entry"
         /\ Expired(obs[p].at, obs[p].seen.expires_at))
        => /\ result[p].kind # "CacheRemove"
           /\ pc[p] = "done" => obs[p].net = 1

\* C9: decoding the encoding of a response within the TTL window yields a
\* response equal in status, in every name/value pair of the headers and in
\* body.
C9_RoundTrip ==
    (/\ codec.pc = "decoded"
     /\ cache_ttl(ttlEnv) > 0
     /\ codec.readAt <= codec.at + cache_ttl(ttlEnv) * TicksPerSec)
    => /\ codec.out.tag = "some"
       /\ codec.out.response.status = codec.c.status
       /\ Pairs(codec.out.response.headers) = Pairs(codec.c.headers)
       /\ codec.out.response.body = codec.c.body

\* C10: every network call made for a check is preceded by a cache lookup
\* for the request.
C10_LookupBeforeNetwork ==
    \A p \in Procs : obs[p].net > 0 => obs[p].looked

\* C11: at most one transport client is constructed per process, over any
\* sequence of GitHub and crates.io checks.
C11_OneClient ==
    \A p \in Procs : Cardinality(client[p]) <= 1

\* C12: with TODO_OR_DIE_SKIP set, to any value, every macro expands to
\* nothing, for every input, and no check runs: no network call, no cache
\* read, no cache write, no client built.
C12_KillSwitch ==
    skipEnv.set =>
        \A p \in Procs :
            /\ pc[p] \in {"idle", "returned", "off"}
            /\ out[p] \in {"none", "empty"}
            /\ obs[p] = NoObs
            /\ result[p] = NoResult
            /\ client[p] = {}
            /\ \A h \in Hashes : wrote[h] = NoResult

\* C13: after_date!(y, m, d) fails the build exactly when today is after the
\* given date: a date before today fails it, today's date and later dates do
\* not.
C13_AfterDate ==
    (date.pc = "done" /\ IsDate(date.input)) =>
        (date.out = "compile_error" <=> DateLess(date.input, date.today))

\* C14: the effective TTL is never negative, it is the variable's value when
\* that is a non-negative integer and 3600 seconds otherwise, and an entry
\* never expires before the time it was written.
C14_TtlNonNegative ==
    codec.pc \in {"encoded", "decoded"} =>
        /\ cache_ttl(ttlEnv) >= 0
        /\ cache_ttl(ttlEnv) =
              (IF ttlEnv.set /\ ParseI64(ttlEnv.text).ok
                    /\ ParseI64(ttlEnv.text).value >= 0
               THEN ParseI64(ttlEnv.text).value
               ELSE DefaultTtlSeconds)
        /\ codec.bytes.expires_at >= codec.at

\* C15: with two processes on one fingerprint, no read of the cache file
\* returns a torn entry: what a lookup reads is no file or the whole text of
\* one write, never a part of one or a mix of two.
C15_NoTornRead ==
    \A p \in Procs :
        obs[p].looked => obs[p].seen.kind # "torn"

C17_NoRetry ==
    \A p \in Procs :
        /\ obs[p].net <= 1
        /\ result[p].kind \in {"Transport", "BodyRead"}
           => /\ pc[p] = "done"
              /\ obs[p].net = 1
              /\ obs[p].put = NoPut
              /\ response[p] = NoResponse

\* C17 witness: a call inside http::request has failed in transport after
\* its one attempt.
C17_Witness ==
    \E p \in Procs :
        /\ InFacade(p)
        /\ pc[p] = "done"
        /\ result[p].kind = "Transport"
        /\ obs[p].net = 1

\* C18: a corrupt cache file does not cause repeated errors: a call does not
\* fail on a file on which an earlier call has failed as corrupt.
C18_CorruptNotRepeated ==
    \A p \in Procs :
        (InFacade(p) /\ pc[p] = "done" /\ result[p].kind = "CacheCorrupt")
        => hash[p] \notin corruptHit

C20_AbsentIsNotFailure ==
    \A p \in Procs :
        (InFacade(p) /\ obs[p].looked)
        => /\ obs[p].seen.kind = "ioerror"
              => /\ pc[p] = "done"
                 /\ result[p] = Failure("CacheRead")
                 /\ obs[p].net = 0
                 /\ obs[p].put = NoPut
           /\ obs[p].seen.kind = "absent"
              => /\ pc[p] \in {"fetch", "store", "write", "done"}
                 /\ result[p].kind # "CacheRead"
                 /\ pc[p] # "fetch" => obs[p].net = 1

\* C20 witness: one call has failed on the read without a network call, and
\* a call that found no file has gone to the network.
C20_Witness ==
    /\ \E p \in Procs :
          /\ InFacade(p)
          /\ obs[p].seen.kind = "ioerror"
          /\ result[p] = Failure("CacheRead")
          /\ obs[p].net = 0
    /\ \E q \in Procs :
          /\ InFacade(q)
          /\ obs[q].looked
          /\ obs[q].seen.kind = "absent"
          /\ obs[q].net = 1

\* C21: a check that ends in a failure never fails the build: perform_check
\* gives compile_error only for input that does not parse and for a check
\* that returned Ok(Some(message)); for Ok(None) and for Err the expansion is
\* empty.
C21_FailureNotFatal ==
    [][\A p \in Procs :
          (pc[p] # "returned" /\ pc'[p] = "returned")
          => /\ out'[p] = "compile_error"
                => \/ (pc[p] = "idle" /\ req'[p] = BadInput)
                   \/ (pc[p] = "done" /\ result[p].kind = "Ok" /\ result[p].value = 1)
             /\ (pc[p] = "done" /\ result[p].kind = "Ok" /\ result[p].value # 1)
                => out'[p] = "empty"
             /\ (pc[p] = "done" /\ result[p].kind # "Ok")
                => out'[p] = "empty_eprintln"]_vars

\* C21 witness: a check has failed, the message went to stderr and the
\* macro has expanded to nothing.
C21_Witness ==
    \E p \in Procs :
        /\ pc[p] = "returned"
        /\ req[p] \in Checks
        /\ out[p] = "empty_eprintln"

====
